---- MODULE Spec2Model ----
(***************************************************************************)
(* The quiz application of roshanayixyz/Prochaska: the question queue,     *)
(* its cursor and counters (QuizProgress), the AppState machine and the    *)
(* handlers startQuiz, handleSubmit, handleNext and the API-key dialog,    *)
(* as written in src/App.tsx and its other revisions under src/unnamed.    *)
(*                                                                         *)
(* A handler runs on the values of the render it was created in, so it    *)
(* reads `progress` as it was before any of its own setProgress calls;     *)
(* the functional updaters it queues are applied in order afterwards.      *)
(* Array indices are 0-based as in the source: At(q, i) is q[i].           *)
(***************************************************************************)
EXTENDS Integers, Sequences, FiniteSets, TLC

\* ------------------------------------------------------------------ bounds
\* number of questions of the modelled bank (the real bank has 100)
BankSize == 4
\* longest queue the model lets a session grow to (the source has no limit)
MaxQueue == 5
\* most attempts the history holds, over all questions (the source has no limit)
MaxAttempts == 5

\* ------------------------------------------------------- program constants
\* const targetIndex = prev.currentIndex + 4
FixedOffset == 4
\* Math.floor(Math.random() * 5) + 3
JitterBase == 3
JitterSpan == 5

\* the three revisions of App whose scheduling code differs
Revisions == {"KeyDialog", "EnvKey", "Jitter"}

\* enum AppState
AppState == {"HOME", "QUIZ", "RESULT", "FINISHED"}

\* what the answer box can hold: nothing, or some text
Answers == {"", "text"}

\* what the key input can hold: nothing, or a key
Keys == {"", "AIza"}

\* process.env.API_KEY of the modelled build: none, the deployment the key
\* dialog exists for (with one, `customKey || process.env.API_KEY` is always
\* truthy and the key gate never fires)
EnvApiKey == ""

\* the failures evaluateAnswer can throw
ErrorKinds == {"quota", "key", "general"}

\* the value of queue[i] when i is out of range
Undefined == -1

VARIABLES
    revision,        \* which revision of App is running
    QUESTIONS,       \* the ids of the question bank, in source order
    customKey,       \* useState customKey
    isKeySetupOpen,  \* useState isKeySetupOpen
    appState,        \* useState appState
    progress,        \* useState progress: QuizProgress
    userAnswer,      \* useState userAnswer
    isEvaluating,    \* useState isEvaluating
    lastResult,      \* useState lastResult: "null", "correct" or "incorrect"
    apiError,        \* useState apiError: "null" or the kind of error
    history,         \* useState history: question id -> list of Attempt
    storage,         \* localStorage item quiz_history
    mounted,         \* whether the effects of the first render have run
    calls,           \* the evaluateAnswer calls awaiting their outcome, each
                     \* with the question id and the answer its handler holds
    lastOp,          \* observer: the step of startQuiz, handleSubmit or
                     \* handleNext that ran last, and how it went
    stats,           \* observer: calls and outcomes of the current session,
                     \* and the id that was current at each handleNext(true)
    marks            \* observer: per queue slot, whether a repeat put it
                     \* there and how often it has been the current question

vars == <<revision, QUESTIONS, customKey, isKeySetupOpen, appState,
          progress, userAnswer, isEvaluating, lastResult, apiError,
          history, storage, mounted, calls, lastOp, stats, marks>>

\* ----------------------------------------------------------------- helpers
Range(s) == {s[i] : i \in 1..Len(s)}

\* q[i] of a JavaScript array
At(q, i) == IF i >= 0 /\ i < Len(q) THEN q[i + 1] ELSE Undefined

\* String.prototype.trim on the modelled texts
Trim(s) == IF s = " " THEN "" ELSE s

\* QUESTIONS.map(q => q.id)
BankIds == QUESTIONS

\* the bank of n questions, ids 1..n
Bank(n) == [i \in 1..n |-> i]

\* [...ids].sort(() => Math.random() - 0.5): some rearrangement of ids
Shuffles(ids) ==
    IF Len(ids) = 0 THEN {<<>>}
    ELSE {[i \in 1..Len(ids) |-> ids[p[i]]] : p \in Permutations(1..Len(ids))}

\* QUESTIONS.find(q => q.id === id) found something
QuestionFound(id) == id \in Range(QUESTIONS)

currentQuestionId == At(progress.queue, progress.currentIndex)
currentQuestion == QuestionFound(currentQuestionId)

\* const apiKey = customKey || process.env.API_KEY
apiKey == IF customKey # "" THEN customKey ELSE EnvApiKey

\* the key-setup screen replaces the whole page
KeySetupShown ==
    /\ revision = "KeyDialog"
    /\ (isKeySetupOpen \/ (customKey = "" /\ EnvApiKey = "" /\ appState = "HOME"))

\* a push that adds nothing
Push_Nothing(q, x) == q

\* newQueue.push(x)
Push(q, x) == Append(q, x)

\* a splice that deletes the element it inserts in front of
Splice_Overwrite(q, targetIndex, x) ==
    SubSeq(q, 1, targetIndex) \o <<x>> \o SubSeq(q, targetIndex + 2, Len(q))

\* newQueue.splice(targetIndex, 0, x)
Splice(q, targetIndex, x) ==
    SubSeq(q, 1, targetIndex) \o <<x>> \o SubSeq(q, targetIndex + 1, Len(q))

\* the offsets the reinsertion may use
JitterOffsets == JitterBase..(JitterBase + JitterSpan - 1)
ReinsertOffsets(rev) == IF rev = "Jitter" THEN JitterOffsets ELSE {FixedOffset}

\* a reinsertion that forgets the offset and targets the next slot
Reinsert_NextSlot(q, c, nextTime, x) ==
    LET targetIndex == c + 1
    IN  IF targetIndex >= Len(q) THEN Push(q, x) ELSE Splice(q, targetIndex, x)

\* a reinsertion that puts the copy at the front of the queue
Reinsert_Front(q, c, nextTime, x) == Splice(q, 0, x)

\* the updater of handleNext: reinsert x nextTime places after currentIndex
Reinsert(q, c, nextTime, x) ==
    LET targetIndex == c + nextTime
    IN  IF targetIndex >= Len(q) THEN Push(q, x) ELSE Splice(q, targetIndex, x)

\* the completion test written with > for >=
IsLastQuestion_Strict(p) == p.currentIndex > Len(p.queue) - 1

\* the completion test one element early
IsLastQuestion_Early(p) == p.currentIndex >= Len(p.queue) - 2

\* progress.currentIndex >= progress.queue.length - 1
IsLastQuestion(p) == p.currentIndex >= Len(p.queue) - 1

\* a start that resets cursor and counters but keeps the previous queue
FreshProgress_KeepQueue(shuffledIds) ==
    [currentIndex |-> 0, correctCount |-> 0, incorrectCount |-> 0,
     queue |-> progress.queue]

\* a start that spreads the previous progress and so keeps its counters
FreshProgress_KeepCounts(shuffledIds) ==
    [progress EXCEPT !.currentIndex = 0, !.queue = shuffledIds]

\* setProgress({ currentIndex: 0, correctCount: 0, incorrectCount: 0, queue })
FreshProgress(shuffledIds) ==
    [currentIndex |-> 0, correctCount |-> 0, incorrectCount |-> 0,
     queue |-> shuffledIds]

\* counter updaters that count every outcome on both sides
RecordOutcome_Both(p, isCorrect) ==
    [p EXCEPT !.correctCount = @ + 1, !.incorrectCount = @ + 1]

\* counter updaters with the two branches swapped
RecordOutcome_Swapped(p, isCorrect) ==
    IF isCorrect
    THEN [p EXCEPT !.incorrectCount = @ + 1]
    ELSE [p EXCEPT !.correctCount = @ + 1]

\* the counter updaters of handleSubmit
RecordOutcome(p, isCorrect) ==
    IF isCorrect
    THEN [p EXCEPT !.correctCount = @ + 1]
    ELSE [p EXCEPT !.incorrectCount = @ + 1]

\* the id read one slot too far
repeatedQuestionId_NextSlot == At(progress.queue, progress.currentIndex + 1)

\* the id read from the front of the queue
repeatedQuestionId_First == At(progress.queue, 0)

\* handleNext's own const currentQuestionId = progress.queue[progress.currentIndex]
repeatedQuestionId == At(progress.queue, progress.currentIndex)

\* a fresh slot, and a slot that became the current question once more
Slot(dup) == [dup |-> dup, visits |-> 0]
Visit(m, i) ==
    IF i >= 0 /\ i < Len(m)
    THEN [m EXCEPT ![i + 1] = [@ EXCEPT !.visits = @ + 1]]
    ELSE m

\* a bar that shows the position, currentIndex + 1, over the queue length
BarWidth_Position(p) == [num |-> p.currentIndex + 1, den |-> Len(p.queue)]

\* width: (progress.currentIndex / progress.queue.length) * 100 %, kept as
\* the fraction num / den
BarWidth(p) == [num |-> p.currentIndex, den |-> Len(p.queue)]

NoStats == [advances |-> 0, repeats |-> 0, correct |-> 0, incorrect |-> 0,
            repeatedIds |-> <<>>]

\* ----------------------------------------------------------------- history
\* useState<Record<number, Attempt[]>>({})
EmptyHistory == [id \in {} |-> <<>>]

\* { text: userAnswer, timestamp: Date.now(), result }: the answer text is
\* kept, the time stamp and the evaluation result are not
Attempt(text) == [text |-> text]

\* prev[id] || []
AttemptsOf(h, id) == IF id \in DOMAIN h THEN h[id] ELSE <<>>

\* an updater that starts the list of the answered question afresh
AppendAttempt_Overwrite(h, id, newAttempt) ==
    [k \in DOMAIN h \cup {id} |-> IF k = id THEN <<newAttempt>> ELSE h[k]]

\* prev => ({ ...prev, [id]: [...(prev[id] || []), newAttempt] })
AppendAttempt(h, id, newAttempt) ==
    [k \in DOMAIN h \cup {id} |->
        IF k = id THEN AttemptsOf(h, id) \o <<newAttempt>> ELSE h[k]]

RECURSIVE TotalAttempts(_)
TotalAttempts(h) ==
    IF DOMAIN h = {} THEN 0
    ELSE LET id == CHOOSE k \in DOMAIN h : TRUE
         IN  Len(h[id]) + TotalAttempts([k \in DOMAIN h \ {id} |-> h[k]])

\* the property name a number becomes in an object: String(id)
DigitChars == <<"0", "1", "2", "3", "4", "5", "6", "7", "8", "9">>
RECURSIVE KeyOf(_)
KeyOf(n) ==
    IF n < 10 THEN DigitChars[n + 1]
    ELSE KeyOf(n \div 10) \o DigitChars[(n % 10) + 1]

\* the number a property name is read back as by history[id]
NumberOf(key) == CHOOSE n \in 0..99 : KeyOf(n) = key

\* the ids of a set in the order an object lists integer keys: ascending
RECURSIVE Ascending(_)
Ascending(ids) ==
    IF ids = {} THEN <<>>
    ELSE LET least == CHOOSE k \in ids : \A j \in ids : k <= j
         IN  <<least>> \o Ascending(ids \ {least})

\* JSON.stringify(history): the entries of the object, keys as strings
Stringify(h) ==
    LET ids == Ascending(DOMAIN h)
    IN  [i \in 1..Len(ids) |-> [key |-> KeyOf(ids[i]), value |-> h[ids[i]]]]

\* JSON.parse(savedHistory), read with numeric ids
Parse(text) ==
    [id \in {NumberOf(text[i].key) : i \in 1..Len(text)} |->
        LET i == CHOOSE j \in 1..Len(text) : NumberOf(text[j].key) = id
        IN  text[i].value]

\* localStorage.getItem('quiz_history') === null, and a stored text
NoItem == [present |-> FALSE, text |-> <<>>]
Item(text) == [present |-> TRUE, text |-> text]

\* a save effect without the test for an empty history
SaveEffect_Unguarded(h, stored) == Item(Stringify(h))

\* useEffect(() => { if (Object.keys(history).length > 0)
\*     localStorage.setItem('quiz_history', JSON.stringify(history)) }, [history])
SaveEffect(h, stored) ==
    IF Cardinality(DOMAIN h) > 0 THEN Item(Stringify(h)) ELSE stored

\* the load effect: setHistory(JSON.parse(savedHistory)) if there is an item
LoadEffect(h, stored) == IF stored.present THEN Parse(stored.text) ELSE h

\* what an earlier run of the application can have left in localStorage:
\* nothing, or the history of one answered question
StoredAtStartup ==
    {NoItem, Item(Stringify(AppendAttempt(EmptyHistory, 1, Attempt("old"))))}

\* ------------------------------------------------------------------- Init
InitWith(ids) ==
    /\ QUESTIONS = ids
    /\ revision \in Revisions
    /\ customKey \in IF revision = "KeyDialog" THEN {"", "AIza"} ELSE {""}
    /\ isKeySetupOpen = FALSE
    /\ appState = "HOME"
    /\ progress = [currentIndex |-> 0, correctCount |-> 0,
                   incorrectCount |-> 0, queue |-> ids]
    /\ userAnswer = ""
    /\ isEvaluating = FALSE
    /\ lastResult = "null"
    /\ apiError = "null"
    /\ history = EmptyHistory
    /\ storage \in StoredAtStartup
    /\ mounted = FALSE
    /\ calls = <<>>
    /\ lastOp = [name |-> "init", arg |-> "none"]
    /\ stats = NoStats
    /\ marks = [i \in 1..Len(ids) |-> Slot(FALSE)]

Init == InitWith(Bank(BankSize))

\* any bank up to BankSize questions, the empty one included
InitAnyBank == \E n \in 0..BankSize : InitWith(Bank(n))

\* ---------------------------------------------------------------- actions
Op(name, arg) == [name |-> name, arg |-> arg]

\* a startQuiz without the early return
GatesOnKey_Never(rev) == FALSE

\* revisions whose startQuiz returns early when no API key is available
GatesOnKey(rev) == rev = "KeyDialog"

\* revisions whose startQuiz and handleNext also call setApiError(null)
ClearsApiError(rev) == rev # "KeyDialog"

\* revisions whose handleNext reinserts only if the current question exists
ChecksCurrentQuestion(rev) == rev # "KeyDialog"

\* whether evaluateAnswer throws on a failure of the given kind: the service
\* called with an apiKey argument rethrows every failure, the one called
\* without rethrows quota and key failures and returns a verdict otherwise
Throws(rev, kind) == rev = "KeyDialog" \/ kind \in {"quota", "key"}

\* a cursor updater that moves two places
Advance_Skip(p) == [p EXCEPT !.currentIndex = @ + 2]

\* a cursor updater that stays where it is
Advance_Stay(p) == p

\* prev => ({ ...prev, currentIndex: prev.currentIndex + 1 })
Advance(p) == [p EXCEPT !.currentIndex = @ + 1]

\* a handleNext that goes back to the home page at the end
AfterNext_Home(p) == IF IsLastQuestion(p) THEN "HOME" ELSE "QUIZ"

\* a handleNext that never shows the FINISHED page
AfterNext_Quiz(p) == "QUIZ"

\* the page handleNext goes to
AfterNext(p) == IF IsLastQuestion(p) THEN "FINISHED" ELSE "QUIZ"

\* a submit button that stays enabled during an evaluation
SubmitDisabled_WhileIdle == Trim(userAnswer) = ""

\* disabled={!userAnswer.trim() || isEvaluating}
SubmitDisabled == Trim(userAnswer) = "" \/ isEvaluating

\* a RESULT page that is also rendered beside the question
ResultShown_OnQuiz == appState \in {"QUIZ", "RESULT"}

\* appState === AppState.RESULT && lastResult && (the two buttons)
ResultShown == appState = "RESULT" /\ lastResult # "null"

\* the effects of the first render, in the order they are declared: the load
\* effect, the save effect (which still sees the initial, empty history), and
\* the save effect again once the loaded history has been rendered
mountEffects ==
    /\ ~mounted
    /\ LET loaded == LoadEffect(history, storage)
           saved == SaveEffect(history, storage)
       IN  /\ history' = loaded
           /\ storage' = IF loaded # history THEN SaveEffect(loaded, saved)
                         ELSE saved
    /\ mounted' = TRUE
    /\ UNCHANGED <<lastOp, revision, QUESTIONS, customKey, isKeySetupOpen,
                   appState, progress, userAnswer, isEvaluating, lastResult,
                   apiError, calls, stats, marks>>

\* the start button: shown on the HOME and the FINISHED page
startQuiz ==
    /\ mounted /\ ~KeySetupShown
    /\ appState \in {"HOME", "FINISHED"}
    /\ IF GatesOnKey(revision) /\ apiKey = ""
       THEN /\ isKeySetupOpen' = TRUE
            /\ lastOp' = Op("startQuiz", "noKey")
            /\ UNCHANGED <<appState, progress, userAnswer, lastResult,
                           apiError, stats, marks>>
       ELSE \E shuffledIds \in Shuffles(BankIds) :
            /\ progress' = FreshProgress(shuffledIds)
            /\ appState' = "QUIZ"
            /\ userAnswer' = ""
            /\ lastResult' = "null"
            /\ apiError' = IF ClearsApiError(revision) THEN "null" ELSE apiError
            /\ lastOp' = Op("startQuiz",
                          IF appState = "HOME" THEN "started"
                          ELSE IF Len(progress.queue) > Len(QUESTIONS)
                               THEN "restartedGrown" ELSE "restarted")
            /\ stats' = NoStats
            /\ marks' = Visit([i \in 1..Len(shuffledIds) |-> Slot(FALSE)], 0)
            /\ UNCHANGED isKeySetupOpen
    /\ UNCHANGED <<revision, QUESTIONS, customKey, isEvaluating,
                   history, storage, mounted, calls>>

\* the two buttons of the RESULT page
handleNext(shouldRepeat) ==
    /\ mounted /\ ~KeySetupShown
    /\ ResultShown
    /\ shouldRepeat => Len(progress.queue) < MaxQueue
    /\ LET id == repeatedQuestionId
           c == progress.currentIndex
           repeats == shouldRepeat
                      /\ (ChecksCurrentQuestion(revision) => QuestionFound(id))
       IN  \E nextTime \in ReinsertOffsets(revision) :
           LET newQueue == IF repeats
                           THEN Reinsert(progress.queue, c, nextTime, id)
                           ELSE progress.queue
               newMarks == IF repeats
                           THEN Reinsert(marks, c, nextTime, Slot(TRUE))
                           ELSE marks
           IN  /\ appState' = AfterNext(progress)
               /\ IF IsLastQuestion(progress)
                  THEN /\ progress' = [progress EXCEPT !.queue = newQueue]
                       /\ marks' = newMarks
                       /\ UNCHANGED <<userAnswer, lastResult, apiError>>
                  ELSE /\ progress' = Advance([progress EXCEPT !.queue = newQueue])
                       /\ marks' = Visit(newMarks, c + 1)
                       /\ userAnswer' = ""
                       /\ lastResult' = "null"
                       /\ apiError' = IF ClearsApiError(revision)
                                      THEN "null" ELSE apiError
               /\ stats' = [stats EXCEPT
                              !.advances = @ + 1,
                              !.repeats = IF shouldRepeat THEN @ + 1 ELSE @,
                              !.repeatedIds = IF shouldRepeat
                                              THEN Append(@, currentQuestionId)
                                              ELSE @]
    /\ lastOp' = Op("handleNext", IF shouldRepeat THEN "repeat" ELSE "next")
    /\ UNCHANGED <<revision, QUESTIONS, customKey, isKeySetupOpen,
                   isEvaluating, history, storage, mounted, calls>>

\* typing into the answer box of the QUIZ page
setUserAnswer(text) ==
    /\ mounted /\ ~KeySetupShown
    /\ appState = "QUIZ" /\ currentQuestion
    /\ ~isEvaluating
    /\ userAnswer' = text
    /\ UNCHANGED <<lastOp, revision, QUESTIONS, customKey, isKeySetupOpen,
                   appState, progress, isEvaluating, lastResult, apiError,
                   history, storage, mounted, calls, stats, marks>>

\* the submit button, up to the awaited evaluateAnswer call
handleSubmit ==
    /\ mounted /\ ~KeySetupShown
    /\ appState = "QUIZ" /\ currentQuestion
    /\ ~SubmitDisabled
    /\ TotalAttempts(history) + Len(calls) < MaxAttempts
    /\ IF GatesOnKey(revision) /\ apiKey = ""
       THEN /\ lastOp' = Op("handleSubmit", "noKey")
            /\ UNCHANGED <<isEvaluating, apiError, calls>>
       ELSE /\ isEvaluating' = TRUE
            /\ apiError' = "null"
            /\ calls' = Append(calls, [id |-> currentQuestionId,
                                       text |-> userAnswer])
            /\ lastOp' = Op("handleSubmit", "sent")
    /\ UNCHANGED <<revision, QUESTIONS, customKey, isKeySetupOpen,
                   appState, progress, userAnswer, lastResult,
                   history, storage, mounted, stats, marks>>

\* a handleSubmit that stores no result
ResultOf_Null(isCorrect) == "null"

\* setLastResult(result): the result kept by its verdict
ResultOf(isCorrect) == IF isCorrect THEN "correct" ELSE "incorrect"

\* the rest of handleSubmit's try block and its finally block, run with the
\* verdict the awaited call returned, and the save effect that follows
Resolve(isCorrect, op) ==
    /\ calls # <<>>
    /\ LET call == Head(calls)
           newAttempt == Attempt(call.text)
       IN  /\ history' = AppendAttempt(history, call.id, newAttempt)
           /\ storage' = SaveEffect(history', storage)
    /\ calls' = Tail(calls)
    /\ lastResult' = ResultOf(isCorrect)
    /\ appState' = "RESULT"
    /\ progress' = RecordOutcome(progress, isCorrect)
    /\ isEvaluating' = FALSE
    /\ stats' = IF isCorrect
                THEN [stats EXCEPT !.correct = @ + 1]
                ELSE [stats EXCEPT !.incorrect = @ + 1]
    /\ lastOp' = op
    /\ UNCHANGED <<revision, QUESTIONS, customKey, isKeySetupOpen,
                   userAnswer, apiError, mounted, marks>>

\* evaluateAnswer resolved with the verdict of the model
evaluateResolved(isCorrect) ==
    Resolve(isCorrect,
            Op("evaluateResolved", IF isCorrect THEN "correct" ELSE "incorrect"))

\* evaluateAnswer failed in a way it does not rethrow and resolved with
\* { isCorrect: false, score: 0, feedback }
evaluateFallback ==
    /\ ~Throws(revision, "general")
    /\ Resolve(FALSE, Op("evaluateFallback", "general"))

\* what the catch block stores for a failure of the given kind
ErrorShown(rev, kind) ==
    IF kind = "quota" THEN "quota"
    ELSE IF kind = "key" /\ rev # "Jitter" THEN "key_missing"
    ELSE "general"

\* evaluateAnswer threw: the catch and finally blocks
evaluateRejected(kind) ==
    /\ calls # <<>>
    /\ Throws(revision, kind)
    /\ calls' = Tail(calls)
    /\ apiError' = ErrorShown(revision, kind)
    /\ isKeySetupOpen' = IF revision = "KeyDialog" /\ kind = "key"
                         THEN TRUE ELSE isKeySetupOpen
    /\ isEvaluating' = FALSE
    /\ lastOp' = Op("evaluateRejected", kind)
    /\ UNCHANGED <<revision, QUESTIONS, customKey, appState, progress,
                   userAnswer, lastResult, history, storage, mounted,
                   stats, marks>>

\* the settings button of the header
openKeySetup ==
    /\ mounted
    /\ revision = "KeyDialog"
    /\ ~KeySetupShown
    /\ isKeySetupOpen' = TRUE
    /\ UNCHANGED <<lastOp, revision, QUESTIONS, customKey, appState, progress,
                   userAnswer, isEvaluating, lastResult, apiError,
                   history, storage, mounted, calls, stats, marks>>

\* leaving the key input of the key-setup screen (onBlur)
setCustomKey(key) ==
    /\ mounted
    /\ KeySetupShown
    /\ customKey' = key
    /\ UNCHANGED <<lastOp, revision, QUESTIONS, isKeySetupOpen, appState,
                   progress, userAnswer, isEvaluating, lastResult, apiError,
                   history, storage, mounted, calls, stats, marks>>

\* the save button of the key-setup screen: saveApiKey(customKey)
saveApiKey ==
    /\ mounted
    /\ KeySetupShown
    /\ customKey' = Trim(customKey)
    /\ isKeySetupOpen' = FALSE
    /\ apiError' = "null"
    /\ UNCHANGED <<lastOp, revision, QUESTIONS, appState, progress,
                   userAnswer, isEvaluating, lastResult,
                   history, storage, mounted, calls, stats, marks>>

Next ==
    \/ mountEffects
    \/ startQuiz
    \/ \E shouldRepeat \in BOOLEAN : handleNext(shouldRepeat)
    \/ \E text \in Answers : setUserAnswer(text)
    \/ handleSubmit
    \/ \E isCorrect \in BOOLEAN : evaluateResolved(isCorrect)
    \/ evaluateFallback
    \/ \E kind \in ErrorKinds : evaluateRejected(kind)
    \/ openKeySetup
    \/ \E key \in Keys : setCustomKey(key)
    \/ saveApiKey

Spec == Init /\ [][Next]_vars

SpecAnyBank == InitAnyBank /\ [][Next]_vars

\* ---------------------------------------------------- a user who carries on
\* The steps of a user who works through the quiz: types an answer and never
\* erases it, submits, presses one of the two buttons of the RESULT page, and
\* enters a key whenever the key-setup screen shows. Evaluations resolve or
\* fail as before.
NextLive ==
    \/ mountEffects
    \/ startQuiz
    \/ \E shouldRepeat \in BOOLEAN : handleNext(shouldRepeat)
    \/ setUserAnswer("text")
    \/ handleSubmit
    \/ \E isCorrect \in BOOLEAN : evaluateResolved(isCorrect)
    \/ evaluateFallback
    \/ \E kind \in ErrorKinds : evaluateRejected(kind)
    \/ setCustomKey("AIza")
    \/ saveApiKey

\* The user takes each of these steps when it stays possible, and a call
\* that is made again and again eventually resolves with a verdict.
Fairness ==
    /\ WF_vars(mountEffects)
    /\ WF_vars(setUserAnswer("text"))
    /\ WF_vars(handleSubmit)
    /\ WF_vars(\E shouldRepeat \in BOOLEAN : handleNext(shouldRepeat))
    /\ WF_vars(setCustomKey("AIza"))
    /\ WF_vars(saveApiKey)
    /\ SF_vars(\E isCorrect \in BOOLEAN : evaluateResolved(isCorrect))

\* any bank of at least one question, and nothing stored by an earlier run
InitLive ==
    /\ \E n \in 1..BankSize : InitWith(Bank(n))
    /\ storage = NoItem

SpecLive == InitLive /\ [][NextLive]_vars /\ Fairness

\* ----------------------------------------------------------------- claims
Repeated == Op("handleNext", "repeat")
InSession == appState \in {"QUIZ", "RESULT"}

\* C1: handleNext(true) never signals completion: right after it the app is
\* not FINISHED, since the completion test counts the reinserted element.
C1_RepeatNeverCompletes == lastOp = Repeated => appState # "FINISHED"

\* C2: in a session that reached FINISHED every duplicate a repeat inserted
\* has been the current question exactly once.
C2_DuplicatesVisitedOnce ==
    appState = "FINISHED" =>
        \A i \in 1..Len(marks) : marks[i].dup => marks[i].visits = 1

\* C3: while a session is active, 0 <= currentIndex < length(queue) and the
\* queue is at least as long as the bank.
C3_CursorInBounds ==
    InSession =>
        /\ 0 <= progress.currentIndex
        /\ progress.currentIndex < Len(progress.queue)
        /\ Len(progress.queue) >= Len(QUESTIONS)
C3_Witness ==
    /\ appState = "RESULT"
    /\ Len(progress.queue) > Len(QUESTIONS)
    /\ progress.currentIndex = Len(progress.queue) - 1

\* each bank id once, nothing else, and cursor and counters at zero
Started(p) ==
    /\ Len(p.queue) = Len(QUESTIONS)
    /\ \A id \in Range(QUESTIONS) :
           Cardinality({i \in 1..Len(p.queue) : p.queue[i] = id}) = 1
    /\ p.currentIndex = 0 /\ p.correctCount = 0 /\ p.incorrectCount = 0

\* C4 as stated: every call of startQuiz, from HOME or FINISHED, leaves the
\* queue a permutation of the bank ids and cursor and counters at zero.
C4_StartAlwaysShuffles == [][startQuiz => Started(progress')]_vars

\* C4 as amended: a call of startQuiz made while an API key is available, or
\* in a revision without the key gate, leaves the queue a permutation of the
\* bank ids and cursor and counters at zero.
C4_StartShufflesWithKey ==
    [][\/ Started(progress')
       \/ ~(startQuiz /\ (GatesOnKey(revision) => apiKey # ""))]_vars
C4_Witness ==
    /\ lastOp = Op("startQuiz", "restartedGrown")
    /\ revision = "KeyDialog"
    /\ progress.queue # BankIds

\* C5: every element of the queue is an id of the bank, and during a session
\* the current question id resolves to a bank question.
C5_QueueIdsInBank ==
    /\ Range(progress.queue) \subseteq Range(QUESTIONS)
    /\ InSession => currentQuestion
C5_Witness ==
    /\ lastOp = Repeated
    /\ appState = "QUIZ"
    /\ Len(progress.queue) > Len(QUESTIONS)

\* C6: in a session with only handleNext(false) calls the cursor equals the
\* number of calls made, slots 0..cursor have each been current once and no
\* other has, and the session is FINISHED exactly after as many calls as the
\* queue (the bank) has elements.
C6_PlainAdvanceVisitsAll ==
    (appState # "HOME" /\ stats.repeats = 0) =>
        /\ Len(progress.queue) = Len(QUESTIONS)
        /\ \A i \in 1..Len(marks) :
               marks[i].visits = IF i - 1 <= progress.currentIndex THEN 1 ELSE 0
        /\ InSession =>
               /\ progress.currentIndex = stats.advances
               /\ stats.advances < Len(progress.queue)
        /\ appState = "FINISHED" =>
               /\ stats.advances = Len(progress.queue)
               /\ progress.currentIndex = Len(progress.queue) - 1
C6_Witness ==
    /\ appState = "FINISHED"
    /\ stats.repeats = 0
    /\ stats.advances = BankSize

\* C7: the counters equal the numbers of correct and incorrect outcomes
\* recorded in the session, whatever handleNext calls came in between.
C7_CountersMatchOutcomes ==
    /\ progress.correctCount = stats.correct
    /\ progress.incorrectCount = stats.incorrect
C7_Witness ==
    /\ lastOp.name = "handleNext"
    /\ stats.repeats >= 1
    /\ stats.correct >= 1
    /\ stats.incorrect >= 1

C9_RepeatAdvancesByOne ==
    [][handleNext(TRUE) =>
        /\ progress'.currentIndex = progress.currentIndex + 1
        /\ Len(progress'.queue) = Len(progress.queue) + 1
        /\ appState' = "QUIZ"
    ]_vars

\* C10: with an empty bank startQuiz enters no session: the app stays on
\* HOME, and no session exists in which there is no current question.
C10_EmptyBankNeverStarts ==
    /\ Len(QUESTIONS) = 0 => appState = "HOME"
    /\ InSession => currentQuestion

\* the steps in which handleSubmit runs its counter update
Recorded == (\E isCorrect \in BOOLEAN : evaluateResolved(isCorrect))
            \/ evaluateFallback

\* C11: the counter update handleSubmit makes after an evaluation raises
\* exactly one of correctCount and incorrectCount by one and leaves
\* currentIndex and the queue as they were.
C11_OutcomeChangesOneCounter ==
    [][Recorded =>
        /\ \/ /\ progress'.correctCount = progress.correctCount + 1
              /\ progress'.incorrectCount = progress.incorrectCount
           \/ /\ progress'.correctCount = progress.correctCount
              /\ progress'.incorrectCount = progress.incorrectCount + 1
        /\ progress'.currentIndex = progress.currentIndex
        /\ progress'.queue = progress.queue
    ]_vars
C11_Witness ==
    /\ lastOp.name = "evaluateResolved"
    /\ progress.currentIndex > 0
    /\ progress.correctCount > 0 /\ progress.incorrectCount > 0
    /\ Len(progress.queue) > Len(QUESTIONS)

\* the step of startQuiz that begins a session
StartsSession == appState \in {"HOME", "FINISHED"} /\ appState' = "QUIZ"

\* C12: between two starts currentIndex never decreases: every step other
\* than the start of a session leaves it as it is or raises it by exactly 1.
C12_CursorNeverDecreases ==
    [][~StartsSession =>
        \/ progress'.currentIndex = progress.currentIndex
        \/ progress'.currentIndex = progress.currentIndex + 1
    ]_vars
C12_Witness ==
    /\ lastOp.name = "handleNext"
    /\ appState = "QUIZ"
    /\ progress.currentIndex = Len(QUESTIONS)

\* a is b with some elements left out, the order kept
RECURSIVE IsSubsequence(_, _)
IsSubsequence(a, b) ==
    IF a = <<>> THEN TRUE
    ELSE IF b = <<>> THEN FALSE
    ELSE IF Head(a) = Head(b) THEN IsSubsequence(Tail(a), Tail(b))
    ELSE IsSubsequence(a, Tail(b))

\* C13: within a session nothing is removed from the queue or reordered:
\* across every step other than the start of a session the old queue is a
\* subsequence of the new one and the length does not decrease.
C13_QueueOnlyGrows ==
    [][~StartsSession =>
        /\ IsSubsequence(progress.queue, progress'.queue)
        /\ Len(progress'.queue) >= Len(progress.queue)
    ]_vars
C13_Witness ==
    /\ lastOp = Repeated
    /\ Len(progress.queue) = Len(QUESTIONS) + 1
    /\ \E i \in 1..Len(QUESTIONS) : marks[i].dup

\* what the first start leaves: a fresh permutation, cursor and counters at
\* zero, the QUIZ page with an empty answer box and no result
LikeFirstStart ==
    /\ appState' = "QUIZ"
    /\ userAnswer' = ""
    /\ lastResult' = "null"
    /\ Started(progress')

\* C14 as stated: every call of startQuiz from FINISHED does what the first
\* start does, discarding the previous queue, cursor and counters, and leaves
\* the history and its stored copy unchanged.
C14_RestartAlwaysFresh ==
    [][appState = "FINISHED" =>
        \/ /\ history' = history /\ storage' = storage
           /\ LikeFirstStart
        \/ ~startQuiz
    ]_vars

\* C14 as amended: a call of startQuiz from FINISHED leaves the history and
\* its stored copy unchanged, and if an API key is available, or the revision
\* has no key gate, it does what the first start does, discarding the
\* previous queue, cursor and counters.
C14_RestartFreshWithKey ==
    [][appState = "FINISHED" =>
        \/ /\ history' = history /\ storage' = storage
           /\ (GatesOnKey(revision) => apiKey # "") => LikeFirstStart
        \/ ~startQuiz
    ]_vars
C14_Witness ==
    /\ lastOp = Op("startQuiz", "restartedGrown")
    /\ appState = "QUIZ"
    /\ history # EmptyHistory
    /\ storage = Item(Stringify(history))

\* a is the beginning of b
IsPrefix(a, b) == Len(a) <= Len(b) /\ SubSeq(b, 1, Len(a)) = a

\* C15: the history is append-only: no step removes an id or changes or
\* removes an attempt it holds, and a step that records an evaluation puts
\* exactly one attempt, the submitted answer, at the end of the list of the
\* submitted question's id and leaves the list of every other id as it was.
C15_HistoryAppendOnly ==
    [][/\ history' # history =>
              \A id \in DOMAIN history :
                  id \in DOMAIN history' /\ IsPrefix(history[id], history'[id])
       /\ Recorded =>
              LET call == Head(calls)
              IN  /\ call.id = currentQuestionId
                  /\ AttemptsOf(history', call.id)
                       = AttemptsOf(history, call.id) \o <<Attempt(call.text)>>
                  /\ \A id \in (DOMAIN history' \cup DOMAIN history) \ {call.id} :
                         AttemptsOf(history', id) = AttemptsOf(history, id)
    ]_vars
C15_Witness ==
    /\ lastOp.name = "evaluateResolved"
    /\ Cardinality(DOMAIN history) >= 2
    /\ \E id \in DOMAIN history :
           Len(history[id]) >= 2 /\ id = currentQuestionId

\* the steps in which the evaluator call fails: evaluateAnswer throws, or it
\* catches the failure itself and returns its fallback verdict
EvaluatorFailed == (\E kind \in ErrorKinds : evaluateRejected(kind))
                   \/ evaluateFallback

\* C16: when the evaluator call fails, handleSubmit changes neither counter,
\* appends no attempt, leaves queue and currentIndex as they were, keeps the
\* app on the QUIZ page and records an API error.
C16_FailureRecordsNothing ==
    [][EvaluatorFailed =>
        /\ progress' = progress
        /\ history' = history /\ storage' = storage
        /\ appState' = "QUIZ"
        /\ apiError' # "null"
    ]_vars

\* C17: at most one evaluateAnswer call is outstanding at any time, and
\* isEvaluating is true exactly while one is: from the submit to the call's
\* resolution or failure, and false again after either.
C17_OneCallOutstanding ==
    /\ Len(calls) <= 1
    /\ isEvaluating <=> Len(calls) = 1
    /\ isEvaluating => appState = "QUIZ"
C17_Witness ==
    /\ isEvaluating
    /\ Len(calls) = 1
    /\ progress.currentIndex > 0
    /\ apiError = "null" /\ Trim(userAnswer) # ""

\* C18: appState changes only from HOME or FINISHED to QUIZ by startQuiz,
\* from QUIZ to RESULT by handleSubmit's continuation after evaluateAnswer
\* resolved, and from RESULT to QUIZ or FINISHED by handleNext; startQuiz
\* runs only on HOME and FINISHED, and nothing leads back to HOME.
C18_AppStateTransitions ==
    [][/\ appState' # appState =>
              \/ /\ appState \in {"HOME", "FINISHED"} /\ appState' = "QUIZ"
                 /\ lastOp'.name = "startQuiz"
              \/ /\ appState = "QUIZ" /\ appState' = "RESULT"
                 /\ Recorded
              \/ /\ appState = "RESULT" /\ appState' \in {"QUIZ", "FINISHED"}
                 /\ lastOp'.name = "handleNext"
       /\ ~(appState \notin {"HOME", "FINISHED"} /\ startQuiz)
       /\ appState' = "HOME" => appState = "HOME"
    ]_vars
C18_Witness ==
    /\ lastOp = Op("startQuiz", "restarted")
    /\ appState = "QUIZ"
    /\ stats = NoStats

\* C19: after every recorded evaluation the stored history, read back, is
\* the history in memory (each save replaces the whole item); once the
\* startup effects have run this holds after every step that changes the
\* history or the stored item, whenever the history is not empty;
\* and no step, the save effect of the first render included, writes an
\* empty mapping.
C19_StoredHistoryFollows ==
    [][/\ Recorded =>
              storage'.present /\ Parse(storage'.text) = history'
       /\ (/\ mounted' /\ history' # EmptyHistory
           /\ <<mounted, history, storage>>' # <<mounted, history, storage>>) =>
              storage' = Item(Stringify(history'))
       /\ storage' # storage => storage' # Item(Stringify(EmptyHistory))
    ]_vars
C19_Witness ==
    /\ lastOp.name = "evaluateResolved"
    /\ 1 \in DOMAIN history /\ history[1][1] = Attempt("old")
    /\ Cardinality(DOMAIN history) >= 3
    /\ Parse(storage.text) = history

\* C20: correctCount + incorrectCount is currentIndex on the QUIZ page and
\* currentIndex + 1 on the RESULT and FINISHED pages: every queue position
\* gets exactly one recorded outcome before the cursor leaves it.
C20_OneOutcomePerPosition ==
    LET outcomes == progress.correctCount + progress.incorrectCount
    IN  /\ appState = "QUIZ" => outcomes = progress.currentIndex
        /\ appState \in {"RESULT", "FINISHED"} =>
               outcomes = progress.currentIndex + 1
C20_Witness ==
    /\ appState = "FINISHED"
    /\ Len(progress.queue) > Len(QUESTIONS)
    /\ progress.currentIndex = Len(progress.queue) - 1
    /\ progress.correctCount + progress.incorrectCount = Len(progress.queue)

\* C21: handleNext(true) inserts the copy at an index above currentIndex, at
\* currentIndex + 3 or later or else at the tail, and across every step other
\* than the start of a session the presented prefix queue[0..currentIndex]
\* stays as it was.
C21_PresentedPrefixKept ==
    [][LET q == progress.queue
           c == progress.currentIndex
           L == Len(q)
       IN  /\ ~StartsSession =>
                  \A i \in 0..c : At(progress'.queue, i) = At(q, i)
           /\ handleNext(TRUE) =>
                  \E t \in (c + 1)..L :
                      /\ t >= c + 3 \/ t = L
                      /\ progress'.queue = Splice(q, t, At(q, c))
    ]_vars
C21_Witness ==
    /\ lastOp = Repeated
    /\ revision = "Jitter"
    /\ progress.currentIndex + 3 <= Len(marks)
    /\ marks[progress.currentIndex + 3].dup

\* the bound on the history leaves room for every answer the session can
\* still ask for, however long its queue grows
HasRoom ==
    TotalAttempts(history) + MaxQueue
        <= MaxAttempts + progress.correctCount + progress.incorrectCount

\* C22: a session of a user who carries on, whose evaluations eventually
\* resolve and who can repeat only finitely often (the queue is bounded),
\* eventually reaches FINISHED; and handleNext(true) from a position that is
\* not the last leaves the session running on a position that again is not
\* the last, so a session of at least two questions in which every advance
\* was such a repeat is never FINISHED.
C22_SessionTerminates ==
    /\ (InSession /\ HasRoom) ~> (appState = "FINISHED")
    /\ [][(handleNext(TRUE) /\ ~IsLastQuestion(progress)) =>
              appState' = "QUIZ" /\ ~IsLastQuestion(progress')]_vars
    /\ []((/\ appState # "HOME" /\ Len(QUESTIONS) >= 2
           /\ stats.repeats = stats.advances) =>
              appState # "FINISHED" /\ ~IsLastQuestion(progress))
C22_Witness ==
    /\ appState = "FINISHED"
    /\ stats.repeats >= 2
    /\ stats.advances > stats.repeats
    /\ HasRoom

\* queue.length - 1 - currentIndex: the questions still to present
Remaining(p) == Len(p.queue) - 1 - p.currentIndex

\* C23: the number of questions still to present goes down by exactly 1 on
\* every handleNext(false) that does not complete the session, and stays as
\* it is on every handleNext(true) taken from a position that is not the last.
C23_RemainingCount ==
    [][~IsLastQuestion(progress) =>
        /\ handleNext(FALSE) => Remaining(progress') = Remaining(progress) - 1
        /\ handleNext(TRUE) => Remaining(progress') = Remaining(progress)
    ]_vars
C23_Witness ==
    /\ lastOp.name = "handleNext"
    /\ appState = "QUIZ"
    /\ stats.repeats >= 1
    /\ stats.advances > stats.repeats
    /\ Remaining(progress) = Len(QUESTIONS) - 1 - (stats.advances - stats.repeats)
    /\ Remaining(progress) >= 1

\* C24: while the progress bar is shown, on the QUIZ and the RESULT page,
\* the fraction it displays is at least 0 and below 1, and no step between
\* two states that show the bar lowers it, a handleNext(true) that lengthens
\* the queue included (compared by cross-multiplication).
C24_ProgressBarMonotone ==
    /\ [](InSession =>
            /\ BarWidth(progress).den > 0
            /\ 0 <= BarWidth(progress).num
            /\ BarWidth(progress).num < BarWidth(progress).den)
    /\ [][(InSession /\ InSession') =>
            BarWidth(progress).num * BarWidth(progress').den
                <= BarWidth(progress').num * BarWidth(progress).den]_vars
C24_Witness ==
    /\ lastOp = Repeated
    /\ appState = "QUIZ"
    /\ progress.currentIndex >= 2
    /\ BarWidth(progress).den > Len(QUESTIONS)

\* how often x occurs in the sequence s
Occurrences(s, x) == Cardinality({i \in 1..Len(s) : s[i] = x})

\* C25: the number of occurrences of each bank id in the queue is 1 plus the
\* number of handleNext(true) calls made in the session while that id was
\* the current question, and the queue holds nothing else.
C25_OccurrencesCountRepeats ==
    /\ \A id \in Range(QUESTIONS) :
           Occurrences(progress.queue, id)
               = 1 + Occurrences(stats.repeatedIds, id)
    /\ Len(progress.queue) = Len(QUESTIONS) + Len(stats.repeatedIds)
C25_Witness ==
    /\ appState = "RESULT"
    /\ Occurrences(stats.repeatedIds, currentQuestionId) = 2
    /\ Occurrences(progress.queue, currentQuestionId) = 3
    /\ \E id \in Range(QUESTIONS) : Occurrences(progress.queue, id) = 2

\* C26: while an evaluateAnswer call is outstanding neither startQuiz nor
\* handleNext can run and no step other than the call's resolution changes
\* the queue, currentIndex or the counters; the resolution leaves queue and
\* currentIndex alone and records the submitted answer as the last attempt
\* of the id the call was made for, which still is queue[currentIndex].
C26_NothingMovesDuringCall ==
    /\ [](calls # <<>> =>
            /\ ~ENABLED startQuiz
            /\ ~ENABLED (\E shouldRepeat \in BOOLEAN : handleNext(shouldRepeat)))
    /\ [][calls # <<>> =>
            IF Recorded
            THEN LET call == Head(calls)
                     id == At(progress'.queue, progress'.currentIndex)
                 IN  /\ progress'.queue = progress.queue
                     /\ progress'.currentIndex = progress.currentIndex
                     /\ call.id = id
                     /\ id \in DOMAIN history'
                     /\ history'[id][Len(history'[id])] = Attempt(call.text)
                     /\ Len(history'[id]) = Len(AttemptsOf(history, id)) + 1
            ELSE progress' = progress
      ]_vars
C26_Witness ==
    /\ calls # <<>>
    /\ isKeySetupOpen
    /\ progress.currentIndex > 0
    /\ Len(progress.queue) > Len(QUESTIONS)
    /\ Head(calls).id = currentQuestionId

\* C27: on the RESULT page lastResult is not null and on the QUIZ page it is
\* null; it becomes non-null only in the step of handleSubmit that follows
\* a returned evaluation, and is cleared by startQuiz and by every
\* handleNext that does not complete the session.
C27_ResultMatchesPage ==
    /\ [](/\ appState = "RESULT" => lastResult # "null"
          /\ appState = "QUIZ" => lastResult = "null")
    /\ [][/\ (lastResult' # lastResult /\ lastResult' # "null") => Recorded
          /\ (lastResult' # lastResult /\ lastResult' = "null") =>
                 lastOp'.name \in {"startQuiz", "handleNext"}
          /\ appState' = "QUIZ" => lastResult' = "null"
      ]_vars
C27_Witness ==
    /\ lastOp = Op("handleNext", "next")
    /\ appState = "QUIZ"
    /\ lastResult = "null"
    /\ progress.correctCount >= 1
    /\ progress.incorrectCount >= 1

\* C28: in the revision whose startQuiz tests for an API key, a call made
\* with no key available (no custom key, no environment key) starts no
\* session: queue, currentIndex, counters and appState stay as they were,
\* as does everything else, and only the key-setup dialog is opened.
C28_NoKeyNoSession ==
    [][(revision = "KeyDialog" /\ customKey = "" /\ EnvApiKey = "" /\ startQuiz) =>
        /\ progress' = progress
        /\ appState' = appState
        /\ isKeySetupOpen'
        /\ UNCHANGED <<userAnswer, lastResult, apiError, isEvaluating,
                       customKey, history, storage, calls>>
    ]_vars
C28_Witness ==
    /\ lastOp = Op("startQuiz", "noKey")
    /\ appState = "FINISHED"
    /\ isKeySetupOpen
    /\ Len(progress.queue) > Len(QUESTIONS)
    /\ progress.correctCount > 0
    /\ history # EmptyHistory

====
